---- MODULE Spec2Model ----
(***************************************************************************)
(* Model of annotation_creator.py: the main menu loop, the four fan-out    *)
(* operations (project, service, individual selection, composite), the     *)
(* composite classifier / reference extractor / resolver, and the          *)
(* per-target annotation submission with its tally.                        *)
(***************************************************************************)
EXTENDS Integers, Sequences, FiniteSets, TLC

VARIABLES
    slos_data,          \* the inventory fetched once by main()
    pc,                 \* position of the (single-threaded) program
    op,                 \* menu operation in progress
    console,            \* diagnostics printed by the operation in progress
    groups,             \* list_projects / list_services: dict key -> list, in insertion order
    composite_slos,     \* list_composite_slos: first value returned by identify_composite_slos
    component_slos,     \* second value returned by identify_composite_slos (bound to _)
    composite_details,  \* list_composite_slos: one entry per composite
    selected_detail,    \* list_composite_slos: <<>> or <<detail>>
    selected_indices,   \* list_individual_slos: the numbers entered, as 1-based positions
    pending,            \* target list the operation hands to create_annotations_for_slos
    request,            \* <<>> or <<[description, startTime, endTime]>>, from get_annotation_details
    params,             \* create_annotations_for_slos: its description, start_time, end_time
    slos_list,          \* create_annotations_for_slos: its target list
    idx,                \* create_annotations_for_slos: 1-based position of the for loop
    success_count,      \* create_annotations_for_slos
    total_count,        \* create_annotations_for_slos
    batch,              \* number of create_annotations_for_slos calls started by the operation
    calls,              \* requests.post calls of the operation, in the order issued
    uuid_draws,         \* number of uuid.uuid4() draws of the operation
    result              \* tallies returned by the create_annotations_for_slos calls of the operation

vars == <<slos_data, pc, op, console, selected_indices, groups, composite_slos, component_slos,
          composite_details, selected_detail, pending, request, params, slos_list,
          idx, success_count, total_count, batch, calls, uuid_draws, result>>

(***************************************************************************)
(* Bounds                                                                  *)
(***************************************************************************)
MaxInv == 2

(***************************************************************************)
(* Python values                                                           *)
(***************************************************************************)
\* dict.get() of an absent key
None == "<None>"

\* Python truthiness of a str-or-None value
Truthy(v) == v # None /\ v # ""

\* Python truthiness of a dict, by its key set
TruthyDict(keys) == keys # {}

\* dict.get(key, default) for a str-or-None value
GetOr(v, default) == IF v = None THEN default ELSE v

(***************************************************************************)
(* Inventory records                                                       *)
(***************************************************************************)
Ref(p, s) == [project |-> p, slo |-> s, objective |-> "o"]

\* objective without a 'composite' key
ObjPlain == [present |-> FALSE, keys |-> {}, objectives |-> <<>>]
\* objective with 'composite': {}
ObjEmpty == [present |-> TRUE, keys |-> {}, objectives |-> <<>>]
\* objective with 'composite': {'maxDelay': ..} (no components)
ObjNoComponents == [present |-> TRUE, keys |-> {"maxDelay"}, objectives |-> <<>>]
\* objective with 'composite': {'maxDelay': .., 'components': {'objectives': refs}}
ObjComposite(refs) ==
    [present |-> TRUE, keys |-> {"maxDelay", "components"}, objectives |-> refs]

Slo(n, d, p, s, objs) ==
    [name |-> n, displayName |-> d, project |-> p, service |-> s, objectives |-> objs]

sloA == Slo("a", None, "p", "s", <<>>)
sloB == Slo("b", "B", "q", "s", <<ObjPlain>>)
sloNoName == Slo(None, None, "p", "s", <<ObjEmpty>>)
sloNoProject == Slo("a", None, "", None, <<ObjPlain, ObjEmpty>>)
sloC == Slo("c", None, "p", None,
            <<ObjComposite(<<Ref("p", "a"), Ref("p", "c")>>), ObjPlain,
              ObjComposite(<<Ref("p", "zz")>>)>>)
sloD == Slo("c", "D", "p", "t", <<ObjEmpty, ObjComposite(<<Ref("q", "b"), Ref("q", "b")>>)>>)
sloE == Slo("e", None, "q", "t", <<ObjNoComponents>>)

SloPool == {sloA, sloB, sloNoName, sloNoProject, sloC, sloD, sloE}

SeqsUpTo(S, n) == UNION {[1..k -> S] : k \in 0..n}

Inventories == SeqsUpTo(SloPool, MaxInv)

Requests ==
    { [description |-> "deploy", startTime |-> "T1", endTime |-> "T2"],
      [description |-> "outage", startTime |-> "T2", endTime |-> "T1"] }

\* what requests.post can do: raise, or return a response with a status code
StatusCodes == {200, 201, 409, 500}
Outcomes ==
    {[raised |-> FALSE, status_code |-> s] : s \in StatusCodes}
        \cup {[raised |-> TRUE, status_code |-> 0]}

(***************************************************************************)
(* Composite classifier, reference extractor, resolver                     *)
(***************************************************************************)
\* objective.get('composite') is truthy
ObjectiveIsComposite(objective) == objective.present /\ TruthyDict(objective.keys)

\* (mutant) the scan tests  'composite' in objective  instead of its truthiness
is_composite_key_present(slo) ==
    \E i \in 1..Len(slo.objectives) : slo.objectives[i].present

\* (mutant) only the first objective is looked at
is_composite_first_objective(slo) ==
    slo.objectives # <<>> /\ ObjectiveIsComposite(slo.objectives[1])

\* the inner loop of identify_composite_slos: is_composite after the scan
is_composite(slo) ==
    \E i \in 1..Len(slo.objectives) : ObjectiveIsComposite(slo.objectives[i])

\* (mutant) the else is lost: a composite is appended to both lists
ClassifyStepNoElse(acc, slo) ==
    IF is_composite(slo)
    THEN [acc EXCEPT !.composite_slos = Append(@, slo),
                     !.component_slos = Append(@, slo)]
    ELSE [acc EXCEPT !.component_slos = Append(@, slo)]

\* (mutant) each SLO is put at the front of its list
ClassifyStepPrepend(acc, slo) ==
    IF is_composite(slo)
    THEN [acc EXCEPT !.composite_slos = <<slo>> \o @]
    ELSE [acc EXCEPT !.component_slos = <<slo>> \o @]

\* one iteration of the outer loop of identify_composite_slos
ClassifyStep(acc, slo) ==
    IF is_composite(slo)
    THEN [acc EXCEPT !.composite_slos = Append(@, slo)]
    ELSE [acc EXCEPT !.component_slos = Append(@, slo)]

identify_composite_slos(data) ==
    LET F[i \in 0..Len(data)] ==
            IF i = 0
            THEN [composite_slos |-> <<>>, component_slos |-> <<>>]
            ELSE ClassifyStep(F[i - 1], data[i])
    IN  F[Len(data)]

\* the references one objective contributes in extract_composite_components
ObjectiveRefs(objective) ==
    IF objective.present /\ TruthyDict(objective.keys)
    THEN IF "components" \in objective.keys THEN objective.objectives ELSE <<>>
    ELSE <<>>

\* (mutant) the references of a later objective are put before those of an earlier one
extract_composite_components_prepend(composite_slo) ==
    LET objs == composite_slo.objectives
        F[i \in 0..Len(objs)] ==
            IF i = 0 THEN <<>> ELSE ObjectiveRefs(objs[i]) \o F[i - 1]
    IN  F[Len(objs)]

extract_composite_components(composite_slo) ==
    LET objs == composite_slo.objectives
        F[i \in 0..Len(objs)] ==
            IF i = 0 THEN <<>> ELSE F[i - 1] \o ObjectiveRefs(objs[i])
    IN  F[Len(objs)]

\* (mutant) the scan does not stop at the first match: the last one is kept
FirstMatchLast(data, component_ref) ==
    LET hits == {j \in 1..Len(data) :
                    /\ data[j].project = component_ref.project
                    /\ data[j].name = component_ref.slo}
    IN  IF hits = {} THEN <<>>
        ELSE <<data[CHOOSE j \in hits : \A k \in hits : j >= k]>>

\* (mutant) the append sits outside the if: every SLO scanned is appended
FirstMatchAppendOutsideIf(data, component_ref) ==
    LET hits == {j \in 1..Len(data) :
                    /\ data[j].project = component_ref.project
                    /\ data[j].name = component_ref.slo}
    IN  IF hits = {} THEN data
        ELSE SubSeq(data, 1, CHOOSE j \in hits : \A k \in hits : j <= k)

\* the inner loop of find_component_slos: <<first match>> or <<>>
FirstMatch(data, component_ref) ==
    LET hits == {j \in 1..Len(data) :
                    /\ data[j].project = component_ref.project
                    /\ data[j].name = component_ref.slo}
    IN  IF hits = {} THEN <<>>
        ELSE <<data[CHOOSE j \in hits : \A k \in hits : j <= k]>>

\* (mutant) an SLO already found is not appended again
find_component_slos_dedup(data, component_refs) ==
    LET F[i \in 0..Len(component_refs)] ==
            IF i = 0 THEN <<>>
            ELSE LET m == FirstMatch(data, component_refs[i])
                 IN  IF m # <<>> /\ (\E k \in 1..Len(F[i - 1]) : F[i - 1][k] = m[1])
                     THEN F[i - 1]
                     ELSE F[i - 1] \o m
    IN  F[Len(component_refs)]

find_component_slos(data, component_refs) ==
    LET F[i \in 0..Len(component_refs)] ==
            IF i = 0 THEN <<>> ELSE F[i - 1] \o FirstMatch(data, component_refs[i])
    IN  F[Len(component_refs)]

\* (mutant) the references are looked up among the non-composite SLOs only
CompositeDetailComponentsOnly(data, composite) ==
    LET refs == extract_composite_components(composite)
    IN  [ composite |-> composite,
          component_refs |-> refs,
          actual_components |->
              find_component_slos(identify_composite_slos(data).component_slos, refs) ]

\* one entry of composite_details
CompositeDetail(data, composite) ==
    LET component_refs == extract_composite_components(composite)
    IN  [composite |-> composite,
         component_refs |-> component_refs,
         actual_components |-> find_component_slos(data, component_refs)]

(***************************************************************************)
(* Grouping of list_projects / list_services                               *)
(***************************************************************************)
\* (mutant) the  if project:  test is missing: a falsy key gets a group as well
GroupAddAnyKey(acc, key, slo) ==
    IF \E g \in 1..Len(acc) : acc[g].key = key
    THEN [g \in 1..Len(acc) |->
             IF acc[g].key = key
             THEN [acc[g] EXCEPT !.slos = Append(@, slo)]
             ELSE acc[g]]
    ELSE Append(acc, [key |-> key, slos |-> <<slo>>])

\* the dict built by the first loop: keys in first-seen order, each with its SLOs
\* in inventory order; entries whose key is falsy are left out
GroupAdd(acc, key, slo) ==
    IF ~Truthy(key) THEN acc
    ELSE IF \E g \in 1..Len(acc) : acc[g].key = key
         THEN [g \in 1..Len(acc) |->
                  IF acc[g].key = key
                  THEN [acc[g] EXCEPT !.slos = Append(@, slo)]
                  ELSE acc[g]]
         ELSE Append(acc, [key |-> key, slos |-> <<slo>>])

ProjectKey(slo) == slo.project
ServiceKey(slo) == slo.service

GroupBy(data, byProject) ==
    LET F[i \in 0..Len(data)] ==
            IF i = 0 THEN <<>>
            ELSE GroupAdd(F[i - 1],
                          IF byProject THEN ProjectKey(data[i]) ELSE ServiceKey(data[i]),
                          data[i])
    IN  F[Len(data)]

(***************************************************************************)
(* State after construction: main() has fetched the inventory and shows    *)
(* the menu                                                                *)
(***************************************************************************)
Say(msg, n) == [msg |-> msg, n |-> n]

\* no create_annotations_for_slos call has been made
NoParams == [description |-> "", start_time |-> "", end_time |-> ""]

\* the locals of an operation and of the calls it makes, before the operation starts
LocalsCleared ==
    /\ groups' = <<>>
    /\ composite_slos' = <<>>
    /\ component_slos' = <<>>
    /\ composite_details' = <<>>
    /\ selected_detail' = <<>>
    /\ selected_indices' = <<>>
    /\ pending' = <<>>
    /\ request' = <<>>
    /\ params' = NoParams
    /\ slos_list' = <<>>
    /\ idx' = 0
    /\ success_count' = 0
    /\ total_count' = 0
    /\ batch' = 0
    /\ calls' = <<>>
    /\ uuid_draws' = 0
    /\ result' = <<>>

Init ==
    /\ slos_data \in Inventories
    /\ pc = "menu"
    /\ op = "none"
    /\ console = <<>>
    /\ groups = <<>>
    /\ composite_slos = <<>>
    /\ component_slos = <<>>
    /\ composite_details = <<>>
    /\ selected_detail = <<>>
    /\ selected_indices = <<>>
    /\ pending = <<>>
    /\ request = <<>>
    /\ params = NoParams
    /\ slos_list = <<>>
    /\ idx = 0
    /\ success_count = 0
    /\ total_count = 0
    /\ batch = 0
    /\ calls = <<>>
    /\ uuid_draws = 0
    /\ result = <<>>

\* an operation returns to the main menu loop, having printed said: its locals are gone
ReturnToMenu(said) ==
    /\ pc' = "menu"
    /\ op' = "none"
    /\ console' = said
    /\ LocalsCleared
    /\ UNCHANGED slos_data

(***************************************************************************)
(* create_annotations_for_slos and create_annotation                       *)
(***************************************************************************)
\* (mutant) success_count is a module-level counter, not reset on entry
CallFanoutCarryCount(targets, description, start_time, end_time) ==
    /\ slos_list' = targets
    /\ params' = [description |-> description, start_time |-> start_time,
                  end_time |-> end_time]
    /\ success_count' = success_count
    /\ total_count' = Len(targets)
    /\ idx' = 1
    /\ batch' = batch + 1
    /\ pc' = "loop"

\* the entry of create_annotations_for_slos, up to the for loop
CallFanout(targets, description, start_time, end_time) ==
    /\ slos_list' = targets
    /\ params' = [description |-> description, start_time |-> start_time,
                  end_time |-> end_time]
    /\ success_count' = 0
    /\ total_count' = Len(targets)
    /\ idx' = 1
    /\ batch' = batch + 1
    /\ pc' = "loop"

\* (mutant) the guard tests the name only
ValidTargetNameOnly(slo) == Truthy(slo.name)

\* the target passes  if slo_name and slo_project
ValidTarget(slo) == Truthy(slo.name) /\ Truthy(slo.project)

\* str(uuid.uuid4()): the n-th draw, never the value of another draw
Uuid4(n) == n

\* (mutant) the project is taken from the first target of the list
AnnotationDataFirstProject(slo, annotation_uuid, description, start_time, end_time) ==
    [name |-> annotation_uuid,
     description |-> description,
     startTime |-> start_time,
     endTime |-> end_time,
     project |-> slos_list[1].project,
     slo |-> slo.name,
     slo_display_name |-> GetOr(slo.displayName, slo.name)]

\* the annotation_data dict built for one target
AnnotationData(slo, annotation_uuid, description, start_time, end_time) ==
    [name |-> annotation_uuid,
     description |-> description,
     startTime |-> start_time,
     endTime |-> end_time,
     project |-> slo.project,
     slo |-> slo.name,
     slo_display_name |-> GetOr(slo.displayName, slo.name)]

\* (mutant) the 409 branch logs at ERROR like every other failure
create_annotation_conflict_as_error(outcome) ==
    IF outcome.raised THEN [ret |-> FALSE, levels |-> <<"ERROR">>]
    ELSE IF outcome.status_code = 200 THEN [ret |-> TRUE, levels |-> <<"SUCCESS">>]
    ELSE [ret |-> FALSE, levels |-> <<"ERROR">>]

\* create_annotation after requests.post: the value returned and the log levels written
create_annotation(outcome) ==
    IF outcome.raised THEN [ret |-> FALSE, levels |-> <<"ERROR">>]
    ELSE IF outcome.status_code = 200 THEN [ret |-> TRUE, levels |-> <<"SUCCESS">>]
    ELSE IF outcome.status_code = 409 THEN [ret |-> FALSE, levels |-> <<"WARNING">>]
    ELSE [ret |-> FALSE, levels |-> <<"ERROR", "ERROR">>]

\* (mutant) the list is walked backwards
CurrentTargetReversed(targets, i) == targets[Len(targets) + 1 - i]

\* for slo in slos_list: the target of the i-th iteration
CurrentTarget(targets, i) == targets[i]

\* (mutant) one identifier per request, drawn before the loop
annotation_uuid_per_request == Uuid4(1)

\* annotation_uuid = str(uuid.uuid4()), drawn in the iteration
annotation_uuid == Uuid4(uuid_draws + 1)

\* (mutant) every submission is counted as a success
TallyEveryCall(count, ret) == count + 1

\* if create_annotation(...): success_count += 1
Tally(count, ret) == IF ret THEN count + 1 ELSE count

\* (mutant) the loop is left at the first submission that does not succeed
AbortOnFailure(i, ret) == IF ret THEN i + 1 ELSE Len(slos_list) + 1

\* (mutant) a submission that does not succeed is tried a second time
RetryOnFailure(i, ret) ==
    IF ret \/ Cardinality({k \in 1..Len(calls) :
                              calls[k].batch = batch /\ calls[k].target = i}) >= 2
    THEN i + 1
    ELSE i

\* the for loop moves to the next target whatever create_annotation returned
AfterSubmission(i, ret) == i + 1

\* (mutant) a skipped target is not stepped over
LoopStepSkipStays ==
    /\ pc = "loop"
    /\ idx <= Len(slos_list)
    /\ LET slo == CurrentTarget(slos_list, idx)
       IN  IF ValidTarget(slo)
           THEN /\ uuid_draws' = uuid_draws + 1
                /\ calls' = Append(calls,
                       [data |-> AnnotationData(slo, annotation_uuid,
                                     params.description, params.start_time,
                                     params.end_time),
                        batch |-> batch,
                        target |-> idx,
                        done |-> FALSE,
                        outcome |-> [raised |-> FALSE, status_code |-> 0],
                        ret |-> FALSE,
                        levels |-> <<>>])
                /\ pc' = "posting"
                /\ UNCHANGED idx
           ELSE UNCHANGED <<idx, uuid_draws, calls, pc>>
    /\ UNCHANGED <<slos_data, selected_indices, op, console, groups, composite_slos, component_slos,
                   composite_details, selected_detail, pending, request, params, slos_list,
                   success_count, total_count, batch, result>>

\* one iteration of the for loop, up to requests.post (or to its end, for a skipped target)
LoopStep ==
    /\ pc = "loop"
    /\ idx <= Len(slos_list)
    /\ LET slo == CurrentTarget(slos_list, idx)
       IN  IF ValidTarget(slo)
           THEN /\ uuid_draws' = uuid_draws + 1
                /\ calls' = Append(calls,
                       [data |-> AnnotationData(slo, annotation_uuid,
                                     params.description, params.start_time,
                                     params.end_time),
                        batch |-> batch,
                        target |-> idx,
                        done |-> FALSE,
                        outcome |-> [raised |-> FALSE, status_code |-> 0],
                        ret |-> FALSE,
                        levels |-> <<>>])
                /\ pc' = "posting"
                /\ UNCHANGED idx
           ELSE /\ idx' = idx + 1
                /\ UNCHANGED <<uuid_draws, calls, pc>>
    /\ UNCHANGED <<slos_data, selected_indices, op, console, groups, composite_slos, component_slos,
                   composite_details, selected_detail, pending, request, params, slos_list,
                   success_count, total_count, batch, result>>

\* requests.post returns or raises; create_annotation logs and returns; the loop counts
PostReturns(outcome) ==
    /\ pc = "posting"
    /\ LET r == create_annotation(outcome)
       IN  /\ calls' = [calls EXCEPT ![Len(calls)] =
                          [@ EXCEPT !.done = TRUE, !.outcome = outcome,
                                    !.ret = r.ret, !.levels = r.levels]]
           /\ success_count' = Tally(success_count, r.ret)
           /\ idx' = AfterSubmission(idx, r.ret)
    /\ pc' = "loop"
    /\ UNCHANGED <<slos_data, selected_indices, op, console, groups, composite_slos, component_slos,
                   composite_details, selected_detail, pending, request, params, slos_list,
                   total_count, batch, uuid_draws, result>>

\* the loop is over: return success_count, total_count
FanoutReturn ==
    /\ pc = "loop"
    /\ idx > Len(slos_list)
    /\ result' = Append(result, <<success_count, total_count>>)
    /\ pc' = "returned"
    /\ UNCHANGED <<slos_data, selected_indices, op, console, groups, composite_slos, component_slos,
                   composite_details, selected_detail, pending, request, params, slos_list,
                   idx, success_count, total_count, batch, calls, uuid_draws>>

\* get_annotation_details returns; the operation makes its (first) fan-out call
GetAnnotationDetails(req) ==
    /\ pc = "details"
    /\ request' = <<req>>
    /\ CallFanout(pending, req.description, req.startTime, req.endTime)
    /\ UNCHANGED <<slos_data, selected_indices, op, console, groups, composite_slos, component_slos,
                   composite_details, selected_detail, pending, calls, uuid_draws,
                   result>>

(***************************************************************************)
(* list_projects, list_services                                            *)
(***************************************************************************)
\* menu option 1 (byProject) or 2: build the groups, list them, prompt
ListGroups(byProject) ==
    /\ pc = "menu"
    /\ LET g == GroupBy(slos_data, byProject)
       IN  IF g = <<>>
           THEN ReturnToMenu(<<Say(IF byProject THEN "No projects found with SLOs."
                                   ELSE "No services found with SLOs.", 0)>>)
           ELSE /\ groups' = g
                /\ op' = IF byProject THEN "project" ELSE "service"
                /\ pc' = "group_select"
                /\ console' = <<>>
                /\ UNCHANGED <<slos_data, selected_indices, composite_slos, component_slos,
                               composite_details, selected_detail, pending, request, params,
                               slos_list, idx, success_count, total_count, batch, calls,
                               uuid_draws, result>>

list_projects == ListGroups(TRUE)
list_services == ListGroups(FALSE)

\* the selection prompt: a number typed by the user
GroupSelect(choice) ==
    /\ pc = "group_select"
    /\ IF 1 <= choice /\ choice <= Len(groups)
       THEN /\ pending' = groups[choice].slos
            /\ console' = Append(console, Say("Selected", choice))
            /\ pc' = "details"
       ELSE UNCHANGED <<pending, console, pc>>
    /\ UNCHANGED <<slos_data, selected_indices, op, groups, composite_slos, component_slos,
                   composite_details, selected_detail, request, params, slos_list, idx,
                   success_count, total_count, batch, calls, uuid_draws, result>>

(***************************************************************************)
(* list_individual_slos                                                    *)
(***************************************************************************)
\* menu option 3: list the inventory, prompt
list_individual_slos ==
    /\ pc = "menu"
    /\ op' = "individual"
    /\ pc' = "indiv_select"
    /\ console' = <<>>
    /\ UNCHANGED <<slos_data, selected_indices, groups, composite_slos, component_slos, composite_details,
                   selected_detail, pending, request, params, slos_list, idx, success_count,
                   total_count, batch, calls, uuid_draws, result>>

\* the comma-separated lists of numbers a user types at the prompt
IndexInputs(n) ==
    { <<1>>, <<n>>, <<0>>, <<n + 1>>, <<1, 1>>, <<n, 1>>, <<n + 1, 1>>, <<0, n + 1>>,
      <<2, n + 1, 1>> }

\* (mutant) the valid positions are made unique and sorted
ValidIndicesSortedUnique(entered, n) ==
    LET S == {entered[i] : i \in 1..Len(entered)} \cap (1..n)
    IN  [k \in 1..Cardinality(S) |->
            CHOOSE x \in S : Cardinality({y \in S : y < x}) = k - 1]

\* valid_indices, as 1-based positions
ValidIndices(entered, n) ==
    SelectSeq(entered, LAMBDA x : 0 <= x - 1 /\ x - 1 < n)

IndividualSelect(entered) ==
    /\ pc = "indiv_select"
    /\ selected_indices' = entered
    /\ LET valid_indices == ValidIndices(entered, Len(slos_data))
       IN  IF valid_indices # <<>>
           THEN /\ pending' = [k \in 1..Len(valid_indices) |-> slos_data[valid_indices[k]]]
                /\ console' = Append(console, Say("Selected SLOs", Len(valid_indices)))
                /\ pc' = "details"
           ELSE UNCHANGED <<pending, console, pc>>
    /\ UNCHANGED <<slos_data, op, groups, composite_slos, component_slos,
                   composite_details, selected_detail, request, params, slos_list, idx,
                   success_count, total_count, batch, calls, uuid_draws, result>>

(***************************************************************************)
(* list_composite_slos                                                     *)
(***************************************************************************)
\* (mutant) classification pops the composites out of the caller's inventory
list_composite_slos_popping ==
    /\ pc = "menu"
    /\ LET r == identify_composite_slos(slos_data)
       IN  /\ composite_slos' = r.composite_slos
           /\ component_slos' = r.component_slos
           /\ slos_data' = r.component_slos
           /\ console' = <<Say("Found composite SLOs", Len(r.composite_slos))>>
    /\ op' = "composite"
    /\ pc' = "comp_classified"
    /\ UNCHANGED <<selected_indices, groups, composite_details, selected_detail, pending,
                   request, params, slos_list, idx, success_count, total_count, batch, calls,
                   uuid_draws, result>>

\* menu option 4: classify the inventory and log the number of composites
list_composite_slos ==
    /\ pc = "menu"
    /\ LET r == identify_composite_slos(slos_data)
       IN  /\ composite_slos' = r.composite_slos
           /\ component_slos' = r.component_slos
           /\ console' = <<Say("Found composite SLOs", Len(r.composite_slos))>>
    /\ op' = "composite"
    /\ pc' = "comp_classified"
    /\ UNCHANGED <<slos_data, selected_indices, groups, composite_details, selected_detail, pending,
                   request, params, slos_list, idx, success_count, total_count, batch, calls,
                   uuid_draws, result>>

\* (mutant) the  if not composite_slos: ... return  is missing
CompositeListNoEarlyReturn ==
    /\ pc = "comp_classified"
    /\ composite_details' =
          [i \in 1..Len(composite_slos) |->
              CompositeDetail(slos_data, composite_slos[i])]
    /\ console' = console \o
          [i \in 1..Len(composite_slos) |->
              Say("component SLOs (listed)",
                  Len(extract_composite_components(composite_slos[i])))]
    /\ pc' = "comp_select"
    /\ UNCHANGED <<slos_data, selected_indices, op, groups, composite_slos, component_slos,
                   selected_detail, pending, request, params, slos_list, idx,
                   success_count, total_count, batch, calls, uuid_draws, result>>

\* no composite: report and return; otherwise build composite_details, list, prompt
CompositeList ==
    /\ pc = "comp_classified"
    /\ IF composite_slos = <<>>
       THEN ReturnToMenu(Append(console, Say("No composite SLOs found.", 0)))
       ELSE /\ composite_details' =
                  [i \in 1..Len(composite_slos) |->
                      CompositeDetail(slos_data, composite_slos[i])]
            /\ console' = console \o
                  [i \in 1..Len(composite_slos) |->
                      Say("component SLOs (listed)",
                          Len(extract_composite_components(composite_slos[i])))]
            /\ pc' = "comp_select"
            /\ UNCHANGED <<slos_data, selected_indices, op, groups, composite_slos, component_slos,
                           selected_detail, pending, request, params, slos_list, idx,
                           success_count, total_count, batch, calls, uuid_draws, result>>

\* (mutant) the entry is counted from the end of composite_details
CompositeSelectFromEnd(choice) ==
    /\ pc = "comp_select"
    /\ IF 1 <= choice /\ choice <= Len(composite_slos)
       THEN LET d == composite_details[Len(composite_slos) + 1 - choice]
            IN  /\ selected_detail' = <<d>>
                /\ pending' = <<d.composite>>
                /\ console' = console \o
                      << Say("Selected composite SLO", choice),
                         Say("component SLOs (to annotate)", Len(d.actual_components)),
                         Say("component references shown", Len(d.component_refs)) >>
                /\ pc' = "details"
       ELSE UNCHANGED <<selected_detail, pending, console, pc>>
    /\ UNCHANGED <<slos_data, selected_indices, op, groups, composite_slos, component_slos,
                   composite_details, request, params, slos_list, idx, success_count,
                   total_count, batch, calls, uuid_draws, result>>

\* the selection prompt, then the summary of what will be annotated
CompositeSelect(choice) ==
    /\ pc = "comp_select"
    /\ IF 1 <= choice /\ choice <= Len(composite_slos)
       THEN LET d == composite_details[choice]
            IN  /\ selected_detail' = <<d>>
                /\ pending' = <<d.composite>>
                /\ console' = console \o
                      << Say("Selected composite SLO", choice),
                         Say("component SLOs (to annotate)", Len(d.actual_components)),
                         Say("component references shown", Len(d.component_refs)) >>
                /\ pc' = "details"
       ELSE UNCHANGED <<selected_detail, pending, console, pc>>
    /\ UNCHANGED <<slos_data, selected_indices, op, groups, composite_slos, component_slos,
                   composite_details, request, params, slos_list, idx, success_count,
                   total_count, batch, calls, uuid_draws, result>>

\* (mutant) the second call passes end_time and start_time in each other's place
CompositeComponentsSwappedTimes ==
    /\ pc = "returned"
    /\ op = "composite"
    /\ batch = 1
    /\ LET selected_components == selected_detail[1].actual_components
       IN  IF selected_components # <<>>
           THEN /\ CallFanout(selected_components, request[1].description,
                               request[1].endTime, request[1].startTime)
                /\ console' = Append(console,
                       Say("Creating annotations for component SLOs",
                           Len(selected_components)))
                /\ UNCHANGED <<slos_data, selected_indices, op, groups, composite_slos, component_slos,
                               composite_details, selected_detail, pending, request,
                               calls, uuid_draws, result>>
           ELSE ReturnToMenu(
                    Append(console,
                       Say("Warning: Could not find actual SLO objects for the components", 0)))

\* (mutant) the second call is made on the composite together with its components
CompositeComponentsWithComposite ==
    /\ pc = "returned"
    /\ op = "composite"
    /\ batch = 1
    /\ LET selected_components == selected_detail[1].actual_components
       IN  IF selected_components # <<>>
           THEN /\ CallFanout(pending \o selected_components, request[1].description,
                               request[1].startTime, request[1].endTime)
                /\ console' = Append(console,
                       Say("Creating annotations for component SLOs",
                           Len(selected_components)))
                /\ UNCHANGED <<slos_data, selected_indices, op, groups, composite_slos, component_slos,
                               composite_details, selected_detail, pending, request,
                               calls, uuid_draws, result>>
           ELSE ReturnToMenu(
                    Append(console,
                       Say("Warning: Could not find actual SLO objects for the components", 0)))

\* after the call on [selected_composite]: the call on selected_components, or the warning
CompositeComponents ==
    /\ pc = "returned"
    /\ op = "composite"
    /\ batch = 1
    /\ LET selected_components == selected_detail[1].actual_components
       IN  IF selected_components # <<>>
           THEN /\ CallFanout(selected_components, request[1].description,
                               request[1].startTime, request[1].endTime)
                /\ console' = Append(console,
                       Say("Creating annotations for component SLOs",
                           Len(selected_components)))
                /\ UNCHANGED <<slos_data, selected_indices, op, groups, composite_slos, component_slos,
                               composite_details, selected_detail, pending, request,
                               calls, uuid_draws, result>>
           ELSE ReturnToMenu(
                    Append(console,
                       Say("Warning: Could not find actual SLO objects for the components", 0)))

(***************************************************************************)
(* The rest of main's menu loop                                            *)
(***************************************************************************)
\* the last create_annotations_for_slos call of an operation has returned
OperationDone ==
    /\ pc = "returned"
    /\ op # "composite" \/ batch = 2
    /\ ReturnToMenu(console)

\* a prompt rejects what was typed (ValueError, or a menu option that does not exist)
BadInput ==
    /\ pc \in {"menu", "group_select", "indiv_select", "comp_select"}
    /\ IF pc = "menu"
       THEN console' = <<Say("Invalid option.", 0)>>
       ELSE UNCHANGED console
    /\ UNCHANGED <<slos_data, selected_indices, pc, op, groups, composite_slos, component_slos,
                   composite_details, selected_detail, pending, request, params, slos_list, idx,
                   success_count, total_count, batch, calls, uuid_draws, result>>

\* sys.exit: the process is gone
Exited ==
    /\ pc' = "exited"
    /\ op' = "none"
    /\ console' = <<>>
    /\ LocalsCleared
    /\ UNCHANGED slos_data

\* menu option x
MenuExit ==
    /\ pc = "menu"
    /\ Exited

\* Ctrl-C: caught by the selection prompts of list_projects, list_services and
\* list_composite_slos (back to the menu); everywhere else it reaches main, which exits
KeyboardInterrupt ==
    /\ pc # "exited"
    /\ IF pc \in {"group_select", "comp_select"}
       THEN ReturnToMenu(Append(console, Say("Operation cancelled.", 0)))
       ELSE Exited

Next ==
    \/ list_projects
    \/ list_services
    \/ \E choice \in 0..(MaxInv + 1) : GroupSelect(choice)
    \/ list_individual_slos
    \/ \E entered \in IndexInputs(Len(slos_data)) : IndividualSelect(entered)
    \/ list_composite_slos
    \/ CompositeList
    \/ \E choice \in 0..(MaxInv + 1) : CompositeSelect(choice)
    \/ \E req \in Requests : GetAnnotationDetails(req)
    \/ LoopStep
    \/ \E outcome \in Outcomes : PostReturns(outcome)
    \/ FanoutReturn
    \/ CompositeComponents
    \/ OperationDone
    \/ BadInput
    \/ MenuExit
    \/ KeyboardInterrupt

Spec == Init /\ [][Next]_vars

(***************************************************************************)
(* create_annotations_for_slos called on its own: any target list over the *)
(* pool (the empty one included), any request, any outcome per submission  *)
(***************************************************************************)
InitApply ==
    /\ slos_data = <<>>
    /\ pc = "call"
    /\ op = "call"
    /\ console = <<>>
    /\ groups = <<>>
    /\ composite_slos = <<>>
    /\ component_slos = <<>>
    /\ composite_details = <<>>
    /\ selected_detail = <<>>
    /\ selected_indices = <<>>
    /\ pending \in Inventories
    /\ request \in {<<req>> : req \in Requests}
    /\ params = NoParams
    /\ slos_list = <<>>
    /\ idx = 0
    /\ success_count = 0
    /\ total_count = 0
    /\ batch = 0
    /\ calls = <<>>
    /\ uuid_draws = 0
    /\ result = <<>>

\* the call create_annotations_for_slos(pending, description, start_time, end_time, ...)
Apply ==
    /\ pc = "call"
    /\ CallFanout(pending, request[1].description, request[1].startTime,
                  request[1].endTime)
    /\ UNCHANGED <<slos_data, selected_indices, op, console, groups, composite_slos, component_slos,
                   composite_details, selected_detail, pending, request, calls,
                   uuid_draws, result>>

NextApply ==
    \/ Apply
    \/ LoopStep
    \/ \E outcome \in Outcomes : PostReturns(outcome)
    \/ FanoutReturn

SpecApply == InitApply /\ [][NextApply]_vars

\* the same call, where the interpreter keeps running and every requests.post returns
\* or raises: a step that can be taken is eventually taken
SpecApplyFair == InitApply /\ [][NextApply]_vars /\ WF_vars(NextApply)

(***************************************************************************)
(* Vocabulary of the properties                                            *)
(***************************************************************************)
Missing(v) == v = None \/ v = ""
LacksNameOrProject(slo) == Missing(slo.name) \/ Missing(slo.project)

\* positions of the current target list that hold a well-formed target
ValidPositions == {i \in 1..Len(slos_list) : ~LacksNameOrProject(slos_list[i])}

\* submissions of the create_annotations_for_slos call in progress (or just returned)
BatchCalls == {k \in 1..Len(calls) : calls[k].batch = batch}

InCall == pc \in {"loop", "posting", "returned"}
Returned == pc = "returned"
LastTally == result[Len(result)]

Success(c) == c.done /\ c.ret
Conflict(c) == c.done /\ ~c.outcome.raised /\ c.outcome.status_code = 409
Failure(c) == c.done /\ ~c.ret /\ ~Conflict(c)

Occurrences(seq, x) == Cardinality({i \in 1..Len(seq) : seq[i] = x})
InSeq(seq, x) == \E i \in 1..Len(seq) : seq[i] = x

\* C1: total equals len(targets); a target lacking a name or a project is counted in
\* total, adds nothing to succeeded and causes no submission; an empty list gives (0, 0)
\* with no submission.
C1_TotalIsLenAndMalformedSkipped ==
    /\ InCall =>
          /\ total_count = Len(slos_list)
          /\ success_count <= Cardinality({i \in ValidPositions : i < idx})
          /\ \A k \in BatchCalls : ~LacksNameOrProject(slos_list[calls[k].target])
    /\ Returned =>
          /\ LastTally[2] = Len(slos_list)
          /\ LastTally[1] <= Cardinality(ValidPositions)
          /\ slos_list = <<>> => LastTally = <<0, 0>> /\ calls = <<>>

C1_Witness ==
    /\ Returned
    /\ Len(slos_list) = 2
    /\ LacksNameOrProject(slos_list[1])
    /\ LastTally = <<1, 2>>

\* C2: succeeded is exactly the number of submissions that reported Success, so N valid
\* targets all succeeding give (N, N), all reporting Conflict give (0, N), and
\* succeeded <= total.
C2_SucceededCountsSuccesses ==
    Returned =>
        LET N == Len(slos_list)
        IN  /\ LastTally[1] = Cardinality({k \in BatchCalls : Success(calls[k])})
            /\ LastTally[1] <= LastTally[2]
            /\ (ValidPositions = 1..N /\ \A k \in BatchCalls : Success(calls[k]))
                  => LastTally = <<N, N>>
            /\ (\A k \in BatchCalls : Conflict(calls[k])) => LastTally = <<0, N>>

C2_Witness ==
    /\ Returned
    /\ Len(calls) = 2
    /\ Success(calls[1])
    /\ Conflict(calls[2])
    /\ LastTally = <<1, 2>>

\* C3: whatever one submission does (Conflict, another status, an exception), every
\* later valid target is still submitted and the call returns its tally.
C3_FailureIsolatedPerTarget ==
    /\ pc \in {"call", "loop", "posting", "returned"}
    /\ pc \in {"loop", "returned"} =>
          \A i \in ValidPositions :
              i < idx => \E k \in BatchCalls : calls[k].target = i /\ calls[k].done
    /\ Returned => idx = Len(slos_list) + 1 /\ Len(result) = 1

C3_Witness ==
    /\ Returned
    /\ Len(calls) = 2
    /\ calls[1].outcome.raised
    /\ calls[2].done
    /\ calls[2].outcome.status_code = 500

\* C4: submissions are issued one at a time in target-list order: the (project, slo)
\* pairs submitted are the valid targets in list order, and each submission is complete
\* before the next is issued.
C4_SubmissionsInListOrder ==
    /\ \A k \in 1..(Len(calls) - 1) :
          calls[k].done /\ calls[k].target < calls[k + 1].target
    /\ (pc = "posting") <=> (calls # <<>> /\ ~calls[Len(calls)].done)
    /\ Returned =>
          LET valid == SelectSeq(slos_list, LAMBDA t : ~LacksNameOrProject(t))
          IN  [k \in 1..Len(calls) |-> <<calls[k].data.project, calls[k].data.slo>>]
                = [k \in 1..Len(valid) |-> <<valid[k].project, valid[k].name>>]

C4_Witness ==
    /\ Returned
    /\ Len(slos_list) = 2
    /\ Len(calls) = 2
    /\ calls[1].data.slo # calls[2].data.slo
    /\ calls[1].data.slo = slos_list[1].name

\* C5: in the composite fan-out the submission for the selected composite comes before
\* every submission for its components, and the component batch carries the same
\* description, startTime and endTime as the composite batch.
C5_CompositeBeforeComponents ==
    op = "composite" =>
        /\ \A k \in 1..Len(calls) :
              /\ calls[k].batch = 1 =>
                    /\ calls[k].data.project = selected_detail[1].composite.project
                    /\ calls[k].data.slo = selected_detail[1].composite.name
              /\ calls[k].batch = 2 =>
                    /\ Len(result) >= 1
                    /\ calls[k].data.description = request[1].description
                    /\ calls[k].data.startTime = request[1].startTime
                    /\ calls[k].data.endTime = request[1].endTime
                    /\ \A j \in 1..Len(calls) :
                          calls[j].batch = 1 =>
                              /\ j < k
                              /\ calls[j].done
                              /\ calls[j].data.description = calls[k].data.description
                              /\ calls[j].data.startTime = calls[k].data.startTime
                              /\ calls[j].data.endTime = calls[k].data.endTime
        /\ batch = 2 =>
              /\ slos_list = selected_detail[1].actual_components
              /\ slos_list # <<>>

C5_Witness ==
    /\ op = "composite"
    /\ Returned
    /\ batch = 2
    /\ Len(calls) >= 2
    /\ calls[1].batch = 1
    /\ calls[2].batch = 2
    /\ calls[2].data.slo # calls[1].data.slo
    /\ calls[2].data.description = calls[1].data.description

\* C6: no two submitted annotation instances carry the same identifier, within one
\* batch or across the composite batch and the component batch of one orchestration.
C6_IdentifiersDistinct ==
    \A i, j \in 1..Len(calls) : i # j => calls[i].data.name # calls[j].data.name

C6_Witness ==
    /\ op = "composite"
    /\ Returned
    /\ Len(calls) = 3
    /\ calls[1].batch = 1
    /\ calls[2].batch = 2
    /\ calls[3].batch = 2

\* C7: every submitted instance carries the request's description, startTime and endTime
\* unchanged and the project and name of the one target it was built for.
C7_InstanceCarriesRequestAndTarget ==
    InCall =>
        \A k \in BatchCalls :
            /\ calls[k].data.description = request[1].description
            /\ calls[k].data.startTime = request[1].startTime
            /\ calls[k].data.endTime = request[1].endTime
            /\ calls[k].data.project = slos_list[calls[k].target].project
            /\ calls[k].data.slo = slos_list[calls[k].target].name

C7_Witness ==
    /\ Returned
    /\ Len(calls) = 2
    /\ calls[1].data.project # calls[2].data.project
    /\ calls[1].data.slo # calls[2].data.slo
    /\ calls[2].data.project = slos_list[2].project

\* C8: no retry: each entry of the target list causes at most one submission whatever
\* its outcome, so the number of submissions equals the number of valid entries.
C8_SingleAttemptPerTarget ==
    /\ InCall =>
          \A i \in 1..Len(slos_list) :
              Cardinality({k \in BatchCalls : calls[k].target = i}) <= 1
    /\ Returned => Cardinality(BatchCalls) = Cardinality(ValidPositions)

C8_Witness ==
    /\ Returned
    /\ Len(calls) = 2
    /\ Failure(calls[1])
    /\ Conflict(calls[2])
    /\ LastTally = <<0, 2>>

\* C9: identify_composite_slos partitions the inventory: the two lists together have
\* len(inventory) entries and every inventory entry is in exactly one of them.
C9_ClassifyPartitions ==
    op = "composite" =>
        /\ Len(composite_slos) + Len(component_slos) = Len(slos_data)
        /\ \A i \in 1..Len(slos_data) :
              /\ InSeq(composite_slos, slos_data[i]) # InSeq(component_slos, slos_data[i])
              /\ Occurrences(composite_slos, slos_data[i])
                    + Occurrences(component_slos, slos_data[i])
                  = Occurrences(slos_data, slos_data[i])
        /\ \A i \in 1..Len(composite_slos) : InSeq(slos_data, composite_slos[i])
        /\ \A i \in 1..Len(component_slos) : InSeq(slos_data, component_slos[i])

C9_Witness ==
    /\ pc = "comp_classified"
    /\ Len(composite_slos) = 1
    /\ Len(component_slos) = 1

\* C10: an SLO is in the composite list iff one of its objectives has a non-empty
\* composite field; with no objectives, or only absent or empty composite fields, it is
\* in the component list.
HasNonEmptyComposite(slo) ==
    \E i \in 1..Len(slo.objectives) :
        slo.objectives[i].present /\ slo.objectives[i].keys # {}

C10_CompositeIffNonEmptyCompositeField ==
    op = "composite" =>
        \A i \in 1..Len(slos_data) :
            /\ InSeq(composite_slos, slos_data[i]) <=> HasNonEmptyComposite(slos_data[i])
            /\ InSeq(component_slos, slos_data[i]) <=> ~HasNonEmptyComposite(slos_data[i])
            /\ slos_data[i].objectives = <<>> => InSeq(component_slos, slos_data[i])

C10_Witness ==
    /\ pc = "comp_classified"
    /\ Len(slos_data) = 2
    /\ \E i \in 1..Len(slos_data[1].objectives) :
          slos_data[1].objectives[i].present /\ slos_data[1].objectives[i].keys = {}
    /\ component_slos = <<slos_data[1]>>
    /\ composite_slos = <<slos_data[2]>>

\* a is b with some entries left out, the others in the same relative order
IsSubsequence(a, b) ==
    \E f \in [1..Len(a) -> 1..Len(b)] :
        /\ \A k \in 1..Len(a) : a[k] = b[f[k]]
        /\ \A k \in 1..(Len(a) - 1) : f[k] < f[k + 1]

\* C11: identify_composite_slos is stable: each output list is a subsequence of the
\* inventory.
C11_ClassifyStable ==
    op = "composite" =>
        /\ IsSubsequence(composite_slos, slos_data)
        /\ IsSubsequence(component_slos, slos_data)

C11_Witness ==
    /\ pc = "comp_classified"
    /\ Len(component_slos) = 2
    /\ component_slos[1] # component_slos[2]
    /\ component_slos = slos_data

\* the objective carries a non-empty composite definition
Bearing(objective) == objective.present /\ objective.keys # {}

\* number of nested component-objectives entries declared by the bearing objectives
\* before position i
DeclaredBefore(objs, i) ==
    LET F[j \in 0..Len(objs)] ==
            IF j = 0 THEN 0
            ELSE F[j - 1] + (IF Bearing(objs[j]) THEN Len(objs[j].objectives) ELSE 0)
    IN  F[i - 1]

\* C12: extract_composite_components returns one reference per nested entry of each
\* objective with a non-empty composite definition, in declaration order, the lists of
\* several such objectives concatenated in objective order; other objectives add nothing.
C12_ReferencesConcatenatedInOrder ==
    \A n \in 1..Len(composite_details) :
        LET objs == composite_details[n].composite.objectives
            refs == composite_details[n].component_refs
        IN  /\ Len(refs) = DeclaredBefore(objs, Len(objs) + 1)
            /\ \A i \in 1..Len(objs) :
                  Bearing(objs[i]) =>
                      \A p \in 1..Len(objs[i].objectives) :
                          refs[DeclaredBefore(objs, i) + p] = objs[i].objectives[p]

C12_Witness ==
    /\ pc = "comp_select"
    /\ Len(composite_details) = 1
    /\ composite_details[1].component_refs
          = <<Ref("p", "a"), Ref("p", "c"), Ref("p", "zz")>>
    /\ Len(composite_details[1].composite.objectives) = 3
    /\ ~Bearing(composite_details[1].composite.objectives[2])

\* positions of the inventory whose (project, name) is the reference's (project, slo)
Matches(ref) ==
    {j \in 1..Len(slos_data) :
        slos_data[j].project = ref.project /\ slos_data[j].name = ref.slo}

\* positions of refs that have a match in the inventory
Matched(refs) == {i \in 1..Len(refs) : Matches(refs[i]) # {}}

Earliest(S) == CHOOSE j \in S : \A k \in S : j <= k

\* C13: find_component_slos takes the references in order and appends, for each, the
\* first inventory entry with the reference's (project, slo); a reference without a
\* match adds nothing; with several entries of one (project, name) the earliest is taken.
C13_ResolveFirstMatchInReferenceOrder ==
    \A n \in 1..Len(composite_details) :
        LET refs == composite_details[n].component_refs
            found == composite_details[n].actual_components
        IN  /\ Len(found) = Cardinality(Matched(refs))
            /\ \A i \in Matched(refs) :
                  found[Cardinality({m \in Matched(refs) : m <= i})]
                      = slos_data[Earliest(Matches(refs[i]))]

C13_Witness ==
    /\ pc = "comp_select"
    /\ Len(slos_data) = 2
    /\ slos_data[1] # slos_data[2]
    /\ slos_data[1].name = slos_data[2].name
    /\ slos_data[1].project = slos_data[2].project
    /\ Len(composite_details) = 2
    /\ Len(composite_details[2].component_refs) = 3
    /\ composite_details[2].composite = slos_data[2]
    /\ composite_details[2].actual_components = <<slos_data[1]>>

\* C14: the number of SLOs find_component_slos returns for the references extracted from
\* a composite is at most the number of those references.
C14_ResolvedAtMostReferenced ==
    \A n \in 1..Len(composite_details) :
        Len(composite_details[n].actual_components)
            <= Len(composite_details[n].component_refs)

C14_Witness ==
    /\ pc = "comp_select"
    /\ \E n \in 1..Len(composite_details) :
          /\ Len(composite_details[n].component_refs) = 3
          /\ Len(composite_details[n].actual_components) = 2

\* C15: the steps that classify the inventory, extract the references and resolve them
\* (the ones that set composite_slos, component_slos and composite_details) leave the
\* inventory as it was: same entries, same order, same field values.
C15_InventoryUnchanged ==
    [][ (\/ composite_slos' # composite_slos
         \/ component_slos' # component_slos
         \/ composite_details' # composite_details
         \/ op' = "composite")
        => slos_data' = slos_data ]_vars

C15_Witness ==
    /\ pc = "comp_select"
    /\ Len(slos_data) = 2
    /\ composite_slos = <<slos_data[1]>>
    /\ component_slos = <<slos_data[2]>>
    /\ composite_details[1].actual_components = <<slos_data[2], slos_data[1]>>

\* C16: the references of a composite are looked up in the whole inventory: a reference
\* whose (project, slo) is first borne by an SLO classified composite is resolved to that
\* SLO, which is then among the targets of the call on the components.
C16_ResolvedAgainstFullInventory ==
    /\ \A n \in 1..Len(composite_details) :
          \A i \in Matched(composite_details[n].component_refs) :
              LET hit == slos_data[Earliest(Matches(composite_details[n].component_refs[i]))]
              IN  HasNonEmptyComposite(hit)
                      => InSeq(composite_details[n].actual_components, hit)
    /\ (op = "composite" /\ batch = 2) =>
          \A i \in Matched(selected_detail[1].component_refs) :
              LET hit == slos_data[Earliest(Matches(selected_detail[1].component_refs[i]))]
              IN  HasNonEmptyComposite(hit) => InSeq(slos_list, hit)

C16_Witness ==
    /\ op = "composite"
    /\ batch = 2
    /\ Returned
    /\ InSeq(slos_list, selected_detail[1].composite)
    /\ InSeq(composite_slos, selected_detail[1].composite)
    /\ \E k \in 1..Len(calls) :
          /\ calls[k].batch = 2
          /\ slos_list[calls[k].target] = selected_detail[1].composite
          /\ Success(calls[k])

\* the one message list_composite_slos prints about references that found no SLO
UnresolvedWarning == "Warning: Could not find actual SLO objects for the components"

Reported(msg) == \E k \in 1..Len(console) : console[k].msg = msg

\* C17: when the selected composite declares more references than were resolved, what
\* list_composite_slos has printed by the time it ends contains a diagnostic of that
\* shortfall.
C17_ShortfallSurfaced ==
    (/\ op = "composite"
     /\ Returned
     /\ batch = 2
     /\ Len(selected_detail[1].actual_components)
            < Len(selected_detail[1].component_refs))
        => Reported(UnresolvedWarning)

\* C18: the warning reported when declared references resolve to nothing is not what is
\* reported for a composite that declares no reference at all.
C18_ZeroReferencesReportedApart ==
    (/\ pc = "menu"
     /\ console # <<>>
     /\ console[Len(console)].msg = UnresolvedWarning)
        => \E k \in 1..Len(console) :
              /\ console[k].msg = "component references shown"
              /\ console[k].n > 0

\* C19: with no composite in the inventory, list_composite_slos goes no further than the
\* classification: it never stands at the selection prompt, at the annotation details or
\* in a submission, and it is back at the menu having printed the empty result, with no
\* submission made and no tally returned.
C19_NoCompositeReportsAndReturns ==
    /\ (op = "composite" /\ identify_composite_slos(slos_data).composite_slos = <<>>)
          => /\ pc = "comp_classified"
             /\ calls = <<>>
             /\ request = <<>>
    /\ (/\ pc = "menu"
        /\ console # <<>>
        /\ console[1] = Say("Found composite SLOs", 0))
          => /\ console = << Say("Found composite SLOs", 0),
                             Say("No composite SLOs found.", 0) >>
             /\ calls = <<>>
             /\ result = <<>>
             /\ request = <<>>

C19_Witness ==
    /\ pc = "menu"
    /\ Len(slos_data) = 2
    /\ slos_data[1] # slos_data[2]
    /\ \E i \in 1..2 : \E j \in 1..Len(slos_data[i].objectives) :
          slos_data[i].objectives[j].present
    /\ console = << Say("Found composite SLOs", 0), Say("No composite SLOs found.", 0) >>

\* every submission made so far in the operation has returned True
AllSucceeded == \A k \in 1..Len(calls) : Success(calls[k])

\* C20: the selected composite is a valid target, k of its r references resolve, to valid
\* SLOs, and every submission succeeds: the call on [composite] returns (1, 1), the call
\* on the resolved components returns (k, k), and 1 + k submissions have been made.
C20_CompositeTallies ==
    (/\ op = "composite"
     /\ Returned
     /\ ValidTarget(selected_detail[1].composite)
     /\ \A i \in 1..Len(selected_detail[1].actual_components) :
           ValidTarget(selected_detail[1].actual_components[i])
     /\ AllSucceeded)
        => LET k == Cardinality(Matched(selected_detail[1].component_refs))
           IN  /\ k <= Len(selected_detail[1].component_refs)
               /\ result[1] = <<1, 1>>
               /\ batch = 1 => Len(calls) = 1 /\ Len(result) = 1
               /\ batch = 2 => /\ result = << <<1, 1>>, <<k, k>> >>
                               /\ Len(calls) = 1 + k

C20_Witness ==
    /\ op = "composite"
    /\ Returned
    /\ batch = 2
    /\ Len(selected_detail[1].component_refs) = 3
    /\ Len(selected_detail[1].actual_components) = 2
    /\ AllSucceeded
    /\ result = << <<1, 1>>, <<2, 2>> >>
    /\ Len(calls) = 3

\* C21: when list_composite_slos has made both create_annotations_for_slos calls and
\* returned, the two tallies those calls returned are in what it hands back.
C21_TalliesCarriedIntoResult ==
    (/\ pc = "menu"
     /\ Reported("Creating annotations for component SLOs"))
        => Len(result) = 2

Levels(c) == {c.levels[i] : i \in 1..Len(c.levels)}

\* C22: every submission that has returned wrote a log line whose level follows from its
\* outcome: WARNING, and only WARNING, for a 409; ERROR, and only ERROR, for any other
\* status but 200 and for an exception; neither of the two for a success.
C22_LevelFollowsOutcome ==
    \A k \in 1..Len(calls) :
        calls[k].done =>
            /\ calls[k].levels # <<>>
            /\ Conflict(calls[k]) => Levels(calls[k]) = {"WARNING"}
            /\ Failure(calls[k]) => Levels(calls[k]) = {"ERROR"}
            /\ Success(calls[k]) => Levels(calls[k]) \cap {"WARNING", "ERROR"} = {}
            /\ ~calls[k].ret => (Conflict(calls[k]) \/ Failure(calls[k]))

C22_Witness ==
    /\ Returned
    /\ Len(calls) = 2
    /\ Conflict(calls[1])
    /\ Failure(calls[2])
    /\ calls[2].outcome.raised
    /\ calls[1].levels # calls[2].levels
    /\ LastTally = <<0, 2>>

\* C23: a submission whose response has a 2xx status is a success.
C23_Every2xxSucceeds ==
    \A k \in 1..Len(calls) :
        (/\ calls[k].done
         /\ ~calls[k].outcome.raised
         /\ calls[k].outcome.status_code \in 200..299)
            => calls[k].ret

\* successes among the submissions of the b-th call of the operation
SucceededIn(b) ==
    Cardinality({k \in 1..Len(calls) : calls[k].batch = b /\ Success(calls[k])})

\* C24: what a create_annotations_for_slos call returns is fixed by its own target list
\* and the outcomes of its own submissions, whatever calls were made before it and
\* however they ended: it starts from a zero count and from the list it was handed.
C24_TallyIndependentOfEarlierCalls ==
    /\ (pc = "loop" /\ BatchCalls = {}) => success_count = 0
    /\ InCall => total_count = Len(slos_list)
    /\ Returned => LastTally = <<SucceededIn(batch), Len(slos_list)>>
    /\ (Returned /\ op = "composite" /\ batch = 2)
          => /\ slos_list = selected_detail[1].actual_components
             /\ result[1] = <<SucceededIn(1), 1>>

C24_Witness ==
    /\ Returned
    /\ op = "composite"
    /\ batch = 2
    /\ result = << <<1, 1>>, <<0, 2>> >>
    /\ Len(calls) = 3

\* C25: a step taken at the composite selection prompt either stays at the prompt with
\* nothing selected, or goes back to the menu, or selects, for an entry k within
\* 1..len(composite_slos), the k-th composite of the classification with the references
\* and the resolved components of that composite; in no case has a submission been made.
C25_SelectByOrdinal ==
    [][ pc = "comp_select" =>
          /\ calls' = <<>>
          /\ \/ pc' = "comp_select" /\ selected_detail' = <<>> /\ pending' = <<>>
             \/ pc' = "menu" /\ selected_detail' = <<>>
             \/ /\ pc' = "details"
                /\ \E k \in 1..Len(composite_slos) :
                      /\ console'[Len(console) + 1] = Say("Selected composite SLO", k)
                      /\ pending' = <<composite_slos[k]>>
                      /\ selected_detail' = <<composite_details[k]>>
                      /\ composite_details[k].composite = composite_slos[k]
                      /\ composite_details[k].component_refs
                            = extract_composite_components(composite_slos[k])
                      /\ composite_details[k].actual_components
                            = find_component_slos(slos_data,
                                  extract_composite_components(composite_slos[k])) ]_vars

C25_Witness ==
    /\ pc = "details"
    /\ Len(composite_slos) = 2
    /\ composite_slos[1] # composite_slos[2]
    /\ selected_detail[1].composite = composite_slos[2]
    /\ selected_detail[1].component_refs # composite_details[1].component_refs
    /\ Reported("Selected composite SLO")
    /\ calls = <<>>

\* the inventory entry a matched reference resolves to
Hit(ref) == slos_data[Earliest(Matches(ref))]

\* C26: an SLO is in the resolved list as many times as there are references resolving to
\* it (no de-duplication); the component batch submits once per matched reference whose
\* SLO has a name and a project; a composite that references itself is submitted in the
\* composite batch and again in the component batch.
C26_ResolvedWithMultiplicity ==
    /\ \A n \in 1..Len(composite_details) :
          LET refs == composite_details[n].component_refs
          IN  \A j \in 1..Len(slos_data) :
                 Occurrences(composite_details[n].actual_components, slos_data[j])
                    = Cardinality({i \in Matched(refs) : Hit(refs[i]) = slos_data[j]})
    /\ (op = "composite" /\ batch = 2 /\ Returned) =>
          LET refs == selected_detail[1].component_refs
              self == selected_detail[1].composite
          IN  /\ Cardinality(BatchCalls)
                    = Cardinality({i \in Matched(refs) : ~LacksNameOrProject(Hit(refs[i]))})
              /\ (\E i \in Matched(refs) : Hit(refs[i]) = self /\ ~LacksNameOrProject(self))
                    => /\ calls[1].batch = 1
                       /\ calls[1].data.slo = self.name
                       /\ \E k \in BatchCalls :
                             /\ slos_list[calls[k].target] = self
                             /\ calls[k].data.slo = self.name
                             /\ calls[k].data.name # calls[1].data.name

C26_Witness ==
    /\ op = "composite"
    /\ batch = 2
    /\ Returned
    /\ Len(selected_detail[1].component_refs) = 2
    /\ selected_detail[1].component_refs[1] = selected_detail[1].component_refs[2]
    /\ Len(slos_list) = 2
    /\ slos_list[1] = slos_list[2]
    /\ Cardinality(BatchCalls) = 2

\* C27: an SLO that identify_composite_slos puts in the component list has no reference
\* for extract_composite_components to return; every inventory entry with at least one
\* extracted reference is in the composite list.
C27_ClassifierAndExtractorAgree ==
    op = "composite" =>
        /\ \A i \in 1..Len(component_slos) :
              extract_composite_components(component_slos[i]) = <<>>
        /\ \A j \in 1..Len(slos_data) :
              extract_composite_components(slos_data[j]) # <<>>
                  => InSeq(composite_slos, slos_data[j])

C27_Witness ==
    /\ pc = "comp_classified"
    /\ Len(component_slos) = 1
    /\ Len(composite_slos) = 1
    /\ \E j \in 1..Len(component_slos[1].objectives) :
          component_slos[1].objectives[j].present
    /\ extract_composite_components(composite_slos[1]) = <<>>

\* the field the running operation groups by
KeyOf(slo) == IF op = "project" THEN slo.project ELSE slo.service

\* the inventory entries bearing the key, in inventory order
WithKey(key) == SelectSeq(slos_data, LAMBDA s : KeyOf(s) = key)

\* C28: in list_projects (list_services) every group is the inventory entries of one
\* non-empty project (service) in inventory order, every entry that has one is in exactly
\* one group, an entry that has none is in no group, and the list handed to
\* create_annotations_for_slos is the group at the number entered.
C28_GroupIsTargetSet ==
    op \in {"project", "service"} =>
        /\ \A g \in 1..Len(groups) :
              /\ ~Missing(groups[g].key)
              /\ groups[g].slos # <<>>
              /\ groups[g].slos = WithKey(groups[g].key)
        /\ \A g, h \in 1..Len(groups) : g # h => groups[g].key # groups[h].key
        /\ \A j \in 1..Len(slos_data) :
              ~Missing(KeyOf(slos_data[j]))
                  => \E g \in 1..Len(groups) : groups[g].key = KeyOf(slos_data[j])
        /\ (pc = "details" \/ InCall) =>
              /\ console[1].msg = "Selected"
              /\ console[1].n \in 1..Len(groups)
              /\ pending = WithKey(groups[console[1].n].key)
        /\ InCall =>
              /\ slos_list = pending
              /\ \A i \in 1..Len(slos_list) : ~Missing(KeyOf(slos_list[i]))

C28_Witness ==
    /\ op = "project"
    /\ Returned
    /\ Len(slos_data) = 2
    /\ Missing(slos_data[1].project)
    /\ slos_list = <<slos_data[2]>>
    /\ Len(calls) = 1
    /\ calls[1].data.project = slos_data[2].project

\* the inventory entries at the entered positions that lie in 1..len(inventory), in the
\* order entered, a repeated position giving its entry again
Picked(entered) ==
    LET F[i \in 0..Len(entered)] ==
            IF i = 0 THEN <<>>
            ELSE IF entered[i] \in 1..Len(slos_data)
                 THEN Append(F[i - 1], slos_data[entered[i]])
                 ELSE F[i - 1]
    IN  F[Len(entered)]

\* C29: list_individual_slos stays at its prompt, with no submission made, as long as no
\* entered position is in range; once it has left the prompt, the list it hands to
\* create_annotations_for_slos is the entries at the in-range positions entered, in the
\* order entered and with repetitions.
C29_IndividualTargets ==
    op = "individual" =>
        /\ pc = "indiv_select" =>
              /\ Picked(selected_indices) = <<>>
              /\ pending = <<>>
              /\ calls = <<>>
        /\ pc # "indiv_select" =>
              /\ pending # <<>>
              /\ pending = Picked(selected_indices)
        /\ InCall => slos_list = pending

C29_Witness ==
    /\ op = "individual"
    /\ Returned
    /\ Len(slos_data) = 2
    /\ slos_data[1] # slos_data[2]
    /\ selected_indices = <<2, 3, 1>>
    /\ slos_list = <<slos_data[2], slos_data[1]>>

\* C30: a create_annotations_for_slos call, each of whose submissions returns or raises,
\* reaches its return statement, having gone once through the loop for each of the
\* len(targets) targets, and returns its tally.
C30_FanoutTerminates ==
    (pc = "call") ~> (/\ Returned
                      /\ idx = Len(pending) + 1
                      /\ result = << <<success_count, Len(pending)>> >>)

C30_Witness ==
    /\ Returned
    /\ Len(slos_list) = 2
    /\ idx = 3
    /\ Len(calls) = 1
    /\ calls[1].outcome.raised
    /\ LacksNameOrProject(slos_list[1])
    /\ result = << <<0, 2>> >>

====
